---- MODULE Spec2Model ----
(***************************************************************************)
(* Issue tracker backend: JWT authentication middleware, issue controller  *)
(* and issue repository over the relational store (tables users, issues).  *)
(*                                                                         *)
(* Conventions.  A nullable column and a JavaScript value that may be      *)
(* undefined are both sequences of length at most one: <<>> is SQL NULL    *)
(* (or undefined), <<v>> carries v.  A text value is a sequence of         *)
(* one-character strings, so that pattern matching can look inside it.     *)
(* NOW() is a logical clock that advances with every statement that is     *)
(* sent to the store.                                                      *)
(***************************************************************************)
EXTENDS Integers, Sequences, FiniteSets, TLC

VARIABLES issues, users, nextUserId, nextIssueId, now, last, listing, pc, req, resp

vars == <<issues, users, nextUserId, nextIssueId, now, last, listing, pc, req, resp>>

(***************************************************************************)
(* Bounds of the model.                                                    *)
(***************************************************************************)
MaxIssues == 2
MaxClock == 3
MaxListIssues == 2
MaxLimit == 2

(***************************************************************************)
(* Values.                                                                 *)
(***************************************************************************)
NULL == <<>>
undefined == <<>>
Some(v) == <<v>>

ISSUE_STATUS ==
    [OPEN |-> "Open", IN_PROGRESS |-> "In Progress",
     RESOLVED |-> "Resolved", CLOSED |-> "Closed"]
ISSUE_PRIORITY ==
    [LOW |-> "Low", MEDIUM |-> "Medium", HIGH |-> "High", CRITICAL |-> "Critical"]
ISSUE_SEVERITY ==
    [MINOR |-> "Minor", MAJOR |-> "Major", CRITICAL |-> "Critical"]

VALID_STATUSES == {ISSUE_STATUS[k] : k \in DOMAIN ISSUE_STATUS}
VALID_PRIORITIES == {ISSUE_PRIORITY[k] : k \in DOMAIN ISSUE_PRIORITY}
VALID_SEVERITIES == {ISSUE_SEVERITY[k] : k \in DOMAIN ISSUE_SEVERITY}

\* The rows of table users the model starts from: two enabled accounts.
InitUsers ==
    (1 :> [name |-> <<"a","n","n">>, email |-> <<"a","@","x">>,
           password_hash |-> "hash1", is_enabled |-> TRUE]) @@
    (2 :> [name |-> <<"b","o","b">>, email |-> <<"b","@","x">>,
           password_hash |-> "hash2", is_enabled |-> TRUE])

UserIds == DOMAIN InitUsers
IssueIds == 1..MaxIssues

\* Text values the requests of the model carry.
TitleA == <<"a","b">>
TitleB == <<"A">>
DescA == <<"b","_">>

(***************************************************************************)
(* Issue repository (IssueModel): each operator is one SQL statement.      *)
(***************************************************************************)

\* A row of SELECT ... FROM issues i LEFT JOIN users creator LEFT JOIN users assignee.
JoinedRow(iss, usr, id) ==
    LET r == iss[id]
        hasCreator == r.created_by \in DOMAIN usr
        hasAssignee == r.assigned_to # NULL /\ r.assigned_to[1] \in DOMAIN usr
    IN  [issue_id |-> id,
         title |-> r.title,
         description |-> r.description,
         status |-> r.status,
         priority |-> r.priority,
         severity |-> r.severity,
         created_by |-> r.created_by,
         assigned_to |-> r.assigned_to,
         created_at |-> r.created_at,
         updated_at |-> r.updated_at,
         resolved_at |-> r.resolved_at,
         creator_name |-> IF hasCreator THEN Some(usr[r.created_by].name) ELSE NULL,
         creator_email |-> IF hasCreator THEN Some(usr[r.created_by].email) ELSE NULL,
         assignee_name |-> IF hasAssignee THEN Some(usr[r.assigned_to[1]].name) ELSE NULL,
         assignee_email |-> IF hasAssignee THEN Some(usr[r.assigned_to[1]].email) ELSE NULL]

\* IssueModel.getIssueById: the joined row, or null when no row has the id.
getIssueById(iss, usr, issueId) ==
    IF issueId \in DOMAIN iss THEN Some(JoinedRow(iss, usr, issueId)) ELSE NULL

\* The destructuring defaults of IssueModel.createIssue: a default replaces
\* undefined only.
OrDefault(field, dflt) == IF field = undefined THEN dflt ELSE field[1]

\* The row INSERT INTO issues ... VALUES ($1..$7, NOW(), NOW()) stores;
\* resolved_at is not in the column list and stays NULL.
createIssueRow(issueData, t) ==
    [title |-> issueData.title[1],
     description |-> OrDefault(issueData.description, NULL),
     status |-> OrDefault(issueData.status, ISSUE_STATUS.OPEN),
     priority |-> OrDefault(issueData.priority, "Medium"),
     severity |-> OrDefault(issueData.severity, "Minor"),
     created_by |-> issueData.createdBy[1],
     assigned_to |-> OrDefault(issueData.assignedTo, NULL),
     created_at |-> t,
     updated_at |-> t,
     resolved_at |-> NULL]

\* IssueModel.createIssue: table issues after the INSERT that returns insertId.
createIssue(iss, insertId, issueData, t) ==
    [i \in DOMAIN iss \cup {insertId} |->
        IF i = insertId THEN createIssueRow(issueData, t) ELSE iss[i]]

\* Status values that stamp resolved_at.
IsResolvedOrClosed(status) ==
    status = ISSUE_STATUS.RESOLVED \/ status = ISSUE_STATUS.CLOSED

\* IssueModel.updateIssue: updateFields.length === 1, only updated_at was pushed.
NothingToUpdate(issueData) ==
    /\ issueData.title = undefined
    /\ issueData.description = undefined
    /\ issueData.status = undefined
    /\ issueData.priority = undefined
    /\ issueData.severity = undefined
    /\ issueData.assignedTo = undefined

\* Mutant of updateIssueRow: priority and severity are always in the SET
\* list, an absent one binding the default createIssue gives it.
updateIssueRow_DefaultAbsent(row, issueData, t) ==
    [row EXCEPT
        !.title = IF issueData.title # undefined THEN issueData.title[1] ELSE @,
        !.description =
            IF issueData.description # undefined THEN issueData.description[1] ELSE @,
        !.status = IF issueData.status # undefined THEN issueData.status[1] ELSE @,
        !.resolved_at =
            IF issueData.status # undefined /\ IsResolvedOrClosed(issueData.status[1])
            THEN Some(t) ELSE @,
        !.priority =
            IF issueData.priority # undefined THEN issueData.priority[1] ELSE "Medium",
        !.severity =
            IF issueData.severity # undefined THEN issueData.severity[1] ELSE "Minor",
        !.assigned_to =
            IF issueData.assignedTo # undefined THEN issueData.assignedTo[1] ELSE @,
        !.updated_at = t]

\* Mutant of updateIssueRow: description and assigned_to are always in the
\* SET list, an absent field binding NULL.
updateIssueRow_OverwriteAbsent(row, issueData, t) ==
    [row EXCEPT
        !.title = IF issueData.title # undefined THEN issueData.title[1] ELSE @,
        !.description =
            IF issueData.description # undefined THEN issueData.description[1] ELSE NULL,
        !.status = IF issueData.status # undefined THEN issueData.status[1] ELSE @,
        !.resolved_at =
            IF issueData.status # undefined /\ IsResolvedOrClosed(issueData.status[1])
            THEN Some(t) ELSE @,
        !.priority = IF issueData.priority # undefined THEN issueData.priority[1] ELSE @,
        !.severity = IF issueData.severity # undefined THEN issueData.severity[1] ELSE @,
        !.assigned_to =
            IF issueData.assignedTo # undefined THEN issueData.assignedTo[1] ELSE NULL,
        !.updated_at = t]

\* The SET list IssueModel.updateIssue builds, applied to one row at NOW() = t.
updateIssueRow(row, issueData, t) ==
    [row EXCEPT
        !.title = IF issueData.title # undefined THEN issueData.title[1] ELSE @,
        !.description =
            IF issueData.description # undefined THEN issueData.description[1] ELSE @,
        !.status = IF issueData.status # undefined THEN issueData.status[1] ELSE @,
        !.resolved_at =
            IF issueData.status # undefined /\ IsResolvedOrClosed(issueData.status[1])
            THEN Some(t) ELSE @,
        !.priority = IF issueData.priority # undefined THEN issueData.priority[1] ELSE @,
        !.severity = IF issueData.severity # undefined THEN issueData.severity[1] ELSE @,
        !.assigned_to =
            IF issueData.assignedTo # undefined THEN issueData.assignedTo[1] ELSE @,
        !.updated_at = t]

\* IssueModel.updateIssue: table issues after the call.
updateIssue(iss, issueId, issueData, t) ==
    IF NothingToUpdate(issueData) \/ issueId \notin DOMAIN iss
    THEN iss
    ELSE [iss EXCEPT ![issueId] = updateIssueRow(@, issueData, t)]

\* IssueModel.updateIssue: the affectedRows it returns.
updateIssueAffectedRows(iss, issueId, issueData) ==
    IF NothingToUpdate(issueData) THEN 0
    ELSE IF issueId \in DOMAIN iss THEN 1 ELSE 0

\* Mutant of updateStatusRow: the second statement sets status only, as the
\* SET list of updateIssue does, and keeps the resolved_at stamp.
updateStatusRow_KeepStamp(row, status, t) ==
    IF IsResolvedOrClosed(status)
    THEN [row EXCEPT !.status = status, !.resolved_at = Some(t), !.updated_at = t]
    ELSE [row EXCEPT !.status = status, !.updated_at = t]

\* The two UPDATE statements of IssueModel.updateStatus, applied to one row.
updateStatusRow(row, status, t) ==
    IF IsResolvedOrClosed(status)
    THEN [row EXCEPT !.status = status, !.resolved_at = Some(t), !.updated_at = t]
    ELSE [row EXCEPT !.status = status, !.resolved_at = NULL, !.updated_at = t]

\* IssueModel.updateStatus: table issues after the call.
updateStatus(iss, issueId, status, t) ==
    IF issueId \in DOMAIN iss
    THEN [iss EXCEPT ![issueId] = updateStatusRow(@, status, t)]
    ELSE iss

\* Mutant of deleteIssue: the WHERE clause matches every row from the id on
\* (issue_id >= $1).
deleteIssue_FromIdOn(iss, issueId) ==
    [i \in {j \in DOMAIN iss : j < issueId} |-> iss[i]]

\* IssueModel.deleteIssue: DELETE FROM issues WHERE issue_id = $1.
deleteIssue(iss, issueId) ==
    [i \in DOMAIN iss \ {issueId} |-> iss[i]]

\* RETURNING issue_id of an UPDATE or DELETE by id: the number of rows hit.
AffectedRows(iss, issueId) == IF issueId \in DOMAIN iss THEN 1 ELSE 0


\* Table issues with no row.
NoIssues == <<>>

(***************************************************************************)
(* Listing: IssueModel.getAllIssues, getIssuesForExport, getStatusCounts.  *)
(***************************************************************************)
DefaultPage == 1
DefaultLimit == 10

\* JavaScript truthiness of an optional string: undefined and "" are falsy.
Truthy(field) == field # undefined /\ field[1] # ""

\* The same for an optional text (a sequence of characters).
TruthyText(field) == field # undefined /\ field[1] # <<>>

\* Letter case as ILIKE folds it, over the characters the model uses.
Lower(c) == CASE c = "A" -> "a" [] c = "B" -> "b" [] OTHER -> c

\* text LIKE pattern, case folded (ILIKE): % matches any run of characters,
\* _ matches any one character, every other character matches itself.
RECURSIVE ILike(_, _)
ILike(text, pattern) ==
    IF pattern = <<>> THEN text = <<>>
    ELSE IF Head(pattern) = "%"
         THEN \/ ILike(text, Tail(pattern))
              \/ text # <<>> /\ ILike(Tail(text), pattern)
    ELSE IF Head(pattern) = "_"
         THEN text # <<>> /\ ILike(Tail(text), Tail(pattern))
    ELSE /\ text # <<>>
         /\ Lower(Head(text)) = Lower(Head(pattern))
         /\ ILike(Tail(text), Tail(pattern))

\* `%${search}%`
searchPattern(search) == <<"%">> \o search \o <<"%">>

\* The WHERE clause both getAllIssues and getIssuesForExport assemble:
\* 1=1 AND one condition per truthy option.  ILIKE on a NULL description is
\* NULL, which selects nothing.
whereClause(row, options) ==
    /\ Truthy(options.status) => row.status = options.status[1]
    /\ Truthy(options.priority) => row.priority = options.priority[1]
    /\ Truthy(options.severity) => row.severity = options.severity[1]
    /\ options.createdBy # undefined => row.created_by = options.createdBy[1]
    /\ TruthyText(options.search) =>
          \/ ILike(row.title, searchPattern(options.search[1]))
          \/ /\ row.description # NULL
             /\ ILike(row.description[1], searchPattern(options.search[1]))

validSortFields == {"created_at", "updated_at", "title", "priority", "status", "severity"}

\* Mutant of safeSortBy: the requested field goes into ORDER BY unchecked.
safeSortBy_Unchecked(sortBy) == sortBy

safeSortBy(sortBy) == IF sortBy \in validSortFields THEN sortBy ELSE "created_at"

\* String.prototype.toUpperCase over the sortOrder values the model sends.
toUpperCase(str) ==
    CASE str = "asc" -> "ASC"
      [] str = "Asc" -> "ASC"
      [] str = "desc" -> "DESC"
      [] OTHER -> str

safeSortOrder(sortOrder) == IF toUpperCase(sortOrder) = "ASC" THEN "ASC" ELSE "DESC"

\* The order of the enum labels in CREATE TYPE, which ORDER BY follows.
EnumRank(label) ==
    CASE label \in {"Open", "Low", "Minor"} -> 1
      [] label \in {"In Progress", "Medium", "Major"} -> 2
      [] label \in {"Resolved", "High"} -> 3
      [] OTHER -> 4

\* Byte order of the characters the model uses (the C collation).
CharCode(c) ==
    CASE c = "%" -> 37 [] c = "A" -> 65 [] c = "B" -> 66 [] c = "_" -> 95
      [] c = "a" -> 97 [] c = "b" -> 98 [] OTHER -> 0

RECURSIVE TextLess(_, _)
TextLess(a, b) ==
    IF b = <<>> THEN FALSE
    ELSE IF a = <<>> THEN TRUE
    ELSE IF Head(a) = Head(b) THEN TextLess(Tail(a), Tail(b))
    ELSE CharCode(Head(a)) < CharCode(Head(b))

\* r1 sorts strictly before r2 under ORDER BY i.<column> ASC.
ColumnLess(r1, r2, column) ==
    CASE column = "created_at" -> r1.created_at < r2.created_at
      [] column = "updated_at" -> r1.updated_at < r2.updated_at
      [] column = "title" -> TextLess(r1.title, r2.title)
      [] column = "priority" -> EnumRank(r1.priority) < EnumRank(r2.priority)
      [] column = "status" -> EnumRank(r1.status) < EnumRank(r2.status)
      [] OTHER -> EnumRank(r1.severity) < EnumRank(r2.severity)

\* The orders of all rows the store may produce for ORDER BY column direction:
\* rows with equal keys come in any order.
OrderedBy(iss, column, direction) ==
    LET n == Cardinality(DOMAIN iss)
    IN  {ord \in [1..n -> DOMAIN iss] :
            /\ \A i, j \in 1..n : i # j => ord[i] # ord[j]
            /\ \A i, j \in 1..n : i < j =>
                  IF direction = "ASC"
                  THEN ~ColumnLess(iss[ord[j]], iss[ord[i]], column)
                  ELSE ~ColumnLess(iss[ord[i]], iss[ord[j]], column)}

\* The ids of ord whose rows satisfy the WHERE clause, in the order of ord.
Selected(iss, options, ord) ==
    SelectSeq(ord, LAMBDA id : whereClause(iss[id], options))

\* Math.ceil(total / limit) for limit >= 1.
ceilDiv(total, limit) ==
    IF total % limit = 0 THEN total \div limit ELSE (total \div limit) + 1

\* Mutant of countRows: the count query is assembled before the search
\* condition is pushed.
countRows_NoSearch(iss, options) ==
    Cardinality({id \in DOMAIN iss :
                    whereClause(iss[id], [options EXCEPT !.search = undefined])})

\* COUNT(*) FROM issues i WHERE whereClause.
countRows(iss, options) ==
    Cardinality({id \in DOMAIN iss : whereClause(iss[id], options)})

\* LIMIT limit OFFSET offset over the selected rows.
limitOffset(sel, limit, offset) ==
    IF offset >= Len(sel) THEN <<>>
    ELSE SubSeq(sel, offset + 1, IF offset + limit <= Len(sel) THEN offset + limit ELSE Len(sel))

\* IssueModel.getAllIssues, ord being the order the store produced for its
\* ORDER BY.
getAllIssues(iss, usr, options, ord) ==
    LET page == OrDefault(options.page, DefaultPage)
        limit == OrDefault(options.limit, DefaultLimit)
        offset == (page - 1) * limit
        total == countRows(iss, options)
        ids == limitOffset(Selected(iss, options, ord), limit, offset)
    IN  [issues |-> [k \in 1..Len(ids) |-> JoinedRow(iss, usr, ids[k])],
         total |-> total,
         totalPages |-> ceilDiv(total, limit),
         currentPage |-> page,
         perPage |-> limit]

\* The ORDER BY of getAllIssues.
listOrders(iss, options) ==
    OrderedBy(iss, safeSortBy(OrDefault(options.sortBy, "created_at")),
                   safeSortOrder(OrDefault(options.sortOrder, "DESC")))

\* Mutant of getIssuesForExport: the severity condition is never pushed.
getIssuesForExport_NoSeverity(iss, usr, options, ord) ==
    LET ids == Selected(iss, [options EXCEPT !.severity = undefined,
                                             !.createdBy = undefined], ord)
    IN  [k \in 1..Len(ids) |->
            LET j == JoinedRow(iss, usr, ids[k])
            IN  [issue_id |-> j.issue_id, title |-> j.title,
                 description |-> j.description, status |-> j.status,
                 priority |-> j.priority, severity |-> j.severity,
                 created_by_name |-> j.creator_name,
                 assigned_to_name |-> j.assignee_name,
                 created_at |-> j.created_at, updated_at |-> j.updated_at,
                 resolved_at |-> j.resolved_at]]

\* IssueModel.getIssuesForExport: every selected row, ORDER BY created_at DESC.
getIssuesForExport(iss, usr, options, ord) ==
    LET ids == Selected(iss, [options EXCEPT !.createdBy = undefined], ord)
    IN  [k \in 1..Len(ids) |->
            LET j == JoinedRow(iss, usr, ids[k])
            IN  [issue_id |-> j.issue_id, title |-> j.title,
                 description |-> j.description, status |-> j.status,
                 priority |-> j.priority, severity |-> j.severity,
                 created_by_name |-> j.creator_name,
                 assigned_to_name |-> j.assignee_name,
                 created_at |-> j.created_at, updated_at |-> j.updated_at,
                 resolved_at |-> j.resolved_at]]

exportOrders(iss) == OrderedBy(iss, "created_at", "DESC")

\* SELECT status, COUNT(*) as count FROM issues GROUP BY status: one row per
\* status that some issue has.
groupByStatus(iss) ==
    {[status |-> st, count |-> Cardinality({id \in DOMAIN iss : iss[id].status = st})] :
        st \in {iss[id].status : id \in DOMAIN iss}}

\* counts.total += parseInt(row.count) over the rows of the result.
RECURSIVE sumCounts(_)
sumCounts(results) ==
    IF results = {} THEN 0
    ELSE LET row == CHOOSE r \in results : TRUE
         IN  row.count + sumCounts(results \ {row})

\* The counts object before the result rows are folded into it.
zeroCounts ==
    ("Open" :> 0) @@ ("In Progress" :> 0) @@ ("Resolved" :> 0) @@ ("Closed" :> 0)
        @@ ("total" :> 0)

\* Mutant of getStatusCounts: the counts object starts with total alone and
\* gets a status key only from a result row.
getStatusCounts_FromRowsOnly(iss) ==
    LET results == groupByStatus(iss)
    IN  [key \in {"total"} \cup {row.status : row \in results} |->
            IF key = "total" THEN sumCounts(results)
            ELSE (CHOOSE row \in results : row.status = key).count]

\* IssueModel.getStatusCounts: the rows of GROUP BY status folded into the
\* counts object, counts[row.status] = count and counts.total += count.
getStatusCounts(iss) ==
    LET results == groupByStatus(iss)
    IN  [key \in DOMAIN zeroCounts \cup {row.status : row \in results} |->
            IF key = "total" THEN zeroCounts.total + sumCounts(results)
            ELSE IF \E row \in results : row.status = key
                 THEN (CHOOSE row \in results : row.status = key).count
                 ELSE zeroCounts[key]]

(***************************************************************************)
(* Issue controller (IssueController) and the response helpers.            *)
(***************************************************************************)

\* formatIssueResponse applied to a row that getIssueById returned.
formatIssueResponse(issue) ==
    [id |-> issue.issue_id,
     title |-> issue.title,
     description |-> issue.description,
     status |-> issue.status,
     priority |-> issue.priority,
     severity |-> issue.severity,
     createdBy |-> [id |-> issue.created_by,
                    name |-> issue.creator_name,
                    email |-> issue.creator_email],
     assignedTo |-> IF issue.assigned_to # NULL
                    THEN Some([id |-> issue.assigned_to[1],
                               name |-> issue.assignee_name,
                               email |-> issue.assignee_email])
                    ELSE NULL,
     createdAt |-> issue.created_at,
     updatedAt |-> issue.updated_at,
     resolvedAt |-> issue.resolved_at]

\* formatIssueResponse(null) reads issue.issue_id of null: a TypeError, which
\* the controller's catch hands to next(error).
FormatThrows(fetched) == fetched = NULL

\* What a controller answers after its last getIssueById: the formatted record
\* with the given success outcome, or the error the centralized handler reports.
Respond(okOutcome, fetched) ==
    IF FormatThrows(fetched)
    THEN [outcome |-> "internalError", data |-> NULL]
    ELSE [outcome |-> okOutcome, data |-> Some(formatIssueResponse(fetched[1]))]

\* A request body: every field the controllers destructure, plus createdBy,
\* which a client may send and no controller reads.
EmptyBody ==
    [title |-> undefined, description |-> undefined, status |-> undefined,
     priority |-> undefined, severity |-> undefined, assignedTo |-> undefined,
     createdBy |-> undefined]

\* Mutant of createIssueData: createdBy is destructured from req.body and
\* falls back to the caller only when the body has none.
createIssueData_FromBody(body, user) ==
    [title |-> body.title,
     description |-> body.description,
     status |-> body.status,
     priority |-> body.priority,
     severity |-> body.severity,
     createdBy |-> IF body.createdBy # undefined THEN body.createdBy
                   ELSE Some(user.userId),
     assignedTo |-> body.assignedTo]

\* IssueController.createIssue: the issueData handed to IssueModel.createIssue;
\* createdBy is req.user.userId.
createIssueData(body, user) ==
    [title |-> body.title,
     description |-> body.description,
     status |-> body.status,
     priority |-> body.priority,
     severity |-> body.severity,
     createdBy |-> Some(user.userId),
     assignedTo |-> body.assignedTo]

\* IssueController.updateIssue: the issueData handed to IssueModel.updateIssue.
updateIssueData(body) ==
    [title |-> body.title,
     description |-> body.description,
     status |-> body.status,
     priority |-> body.priority,
     severity |-> body.severity,
     assignedTo |-> body.assignedTo]

\* The identity authenticate attaches to the request: the payload of the token
\* generateToken signed for a row of users.
TokenPayload(u) ==
    [userId |-> u, email |-> InitUsers[u].email, name |-> InitUsers[u].name]

(***************************************************************************)
(* Inputs of the sequential specification.                                 *)
(***************************************************************************)
CreateBodies ==
    {[EmptyBody EXCEPT !.title = Some(TitleA)],
     [EmptyBody EXCEPT !.title = Some(TitleB), !.description = Some(Some(DescA)),
                       !.status = Some("Resolved"), !.createdBy = Some(2)],
     [EmptyBody EXCEPT !.title = Some(TitleB), !.description = Some(NULL),
                       !.status = Some("In Progress"), !.priority = Some("High"),
                       !.severity = Some("Major"), !.assignedTo = Some(Some(2)),
                       !.createdBy = Some(1)]}

UpdateBodies ==
    {EmptyBody,
     [EmptyBody EXCEPT !.title = Some(TitleB)],
     [EmptyBody EXCEPT !.description = Some(NULL), !.createdBy = Some(2)],
     [EmptyBody EXCEPT !.status = Some("Open")],
     [EmptyBody EXCEPT !.status = Some("Closed")],
     [EmptyBody EXCEPT !.priority = Some("Critical"), !.assignedTo = Some(Some(1))],
     [EmptyBody EXCEPT !.title = Some(TitleA), !.description = Some(Some(DescA)),
                       !.status = Some("In Progress"), !.priority = Some("Low"),
                       !.severity = Some("Critical"), !.assignedTo = Some(NULL)]}

StatusBody(status) == [EmptyBody EXCEPT !.status = Some(status)]

NoCall ==
    [op |-> "none", id |-> 0, user |-> NULL, body |-> EmptyBody, before |-> NoIssues,
     affectedRows |-> 0, outcome |-> "none"]

Idle == <<>>

(***************************************************************************)
(* Sequential specification: one request at a time, each controller method *)
(* run to its response.  last records the request and what it returned.    *)
(***************************************************************************)
InitSeq ==
    /\ issues = NoIssues
    /\ users = InitUsers
    /\ nextUserId = Cardinality(DOMAIN InitUsers) + 1
    /\ nextIssueId = 1
    /\ now = 0
    /\ last = NoCall
    /\ listing = NULL
    /\ pc = Idle
    /\ req = Idle
    /\ resp = Idle

\* POST /api/issues
SeqCreateIssue ==
    \E u \in UserIds, body \in CreateBodies :
        LET user == TokenPayload(u)
            t == now + 1
            stored == createIssue(issues, nextIssueId, createIssueData(body, user), t)
            answer == Respond("created", getIssueById(stored, users, nextIssueId))
        IN  /\ nextIssueId <= MaxIssues
            /\ now < MaxClock
            /\ issues' = stored
            /\ nextIssueId' = nextIssueId + 1
            /\ now' = t
            /\ last' = [op |-> "createIssue", id |-> nextIssueId, user |-> Some(user),
                        body |-> body, before |-> issues, affectedRows |-> 1,
                        outcome |-> answer.outcome]
            /\ UNCHANGED <<users, nextUserId, listing, pc, req, resp>>

\* PUT /api/issues/:id
SeqUpdateIssue ==
    \E id \in IssueIds, body \in UpdateBodies :
        LET existingIssue == getIssueById(issues, users, id)
            issueData == updateIssueData(body)
            sent == existingIssue # NULL /\ ~NothingToUpdate(issueData)
            t == IF sent THEN now + 1 ELSE now
            stored == IF existingIssue = NULL THEN issues
                      ELSE updateIssue(issues, id, issueData, t)
            answer == IF existingIssue = NULL
                      THEN [outcome |-> "notFound", data |-> NULL]
                      ELSE Respond("success", getIssueById(stored, users, id))
        IN  /\ sent => now < MaxClock
            /\ issues' = stored
            /\ now' = t
            /\ last' = [op |-> "updateIssue", id |-> id, user |-> NULL,
                        body |-> body,
                        before |-> issues,
                        affectedRows |-> IF existingIssue = NULL THEN 0
                                         ELSE updateIssueAffectedRows(issues, id, issueData),
                        outcome |-> answer.outcome]
            /\ UNCHANGED <<users, nextUserId, nextIssueId, listing, pc, req, resp>>

\* PATCH /api/issues/:id/status
SeqUpdateStatus ==
    \E id \in IssueIds, status \in VALID_STATUSES :
        LET existingIssue == getIssueById(issues, users, id)
            sent == existingIssue # NULL
            t == IF sent THEN now + 1 ELSE now
            stored == IF sent THEN updateStatus(issues, id, status, t) ELSE issues
            answer == IF existingIssue = NULL
                      THEN [outcome |-> "notFound", data |-> NULL]
                      ELSE Respond("success", getIssueById(stored, users, id))
        IN  /\ sent => now < MaxClock
            /\ issues' = stored
            /\ now' = t
            /\ last' = [op |-> "updateStatus", id |-> id, user |-> NULL,
                        body |-> StatusBody(status),
                        before |-> issues,
                        affectedRows |-> IF sent THEN AffectedRows(issues, id) ELSE 0,
                        outcome |-> answer.outcome]
            /\ UNCHANGED <<users, nextUserId, nextIssueId, listing, pc, req, resp>>

\* DELETE /api/issues/:id
SeqDeleteIssue ==
    \E id \in IssueIds :
        LET existingIssue == getIssueById(issues, users, id)
            sent == existingIssue # NULL
        IN  /\ sent => now < MaxClock
            /\ issues' = IF sent THEN deleteIssue(issues, id) ELSE issues
            /\ now' = IF sent THEN now + 1 ELSE now
            /\ last' = [op |-> "deleteIssue", id |-> id, user |-> NULL,
                        body |-> EmptyBody,
                        before |-> issues,
                        affectedRows |-> IF sent THEN AffectedRows(issues, id) ELSE 0,
                        outcome |-> IF sent THEN "success" ELSE "notFound"]
            /\ UNCHANGED <<users, nextUserId, nextIssueId, listing, pc, req, resp>>

\* GET /api/issues/stats/counts
SeqGetStatusCounts ==
    /\ last' = [op |-> "getStatusCounts", id |-> 0, user |-> NULL, body |-> EmptyBody,
                before |-> issues, affectedRows |-> 0, outcome |-> "success",
                counts |-> getStatusCounts(issues)]
    /\ UNCHANGED <<issues, users, nextUserId, nextIssueId, now, listing, pc, req, resp>>

NextSeq ==
    \/ SeqCreateIssue
    \/ SeqUpdateIssue
    \/ SeqUpdateStatus
    \/ SeqDeleteIssue
    \/ SeqGetStatusCounts

SpecSeq == InitSeq /\ [][NextSeq]_vars


(***************************************************************************)
(* Listing specification: the store holds up to MaxListIssues issues that  *)
(* earlier requests left, and a list request is answered from it.  A list  *)
(* request writes nothing, so a behaviour answers one: a second would be   *)
(* answered from the same store.                                           *)
(***************************************************************************)
MaxPage == 2

\* Column values of the stored issues.
ListContents ==
    {[title |-> <<"a","b">>, description |-> NULL, status |-> "Open",
      priority |-> "Medium", severity |-> "Minor", created_by |-> 1,
      assigned_to |-> NULL],
     [title |-> <<"A">>, description |-> Some(<<"b","_">>), status |-> "Resolved",
      priority |-> "High", severity |-> "Major", created_by |-> 2,
      assigned_to |-> Some(1)],
     [title |-> <<"B">>, description |-> Some(<<"a">>), status |-> "Open",
      priority |-> "High", severity |-> "Minor", created_by |-> 1,
      assigned_to |-> Some(2)]}

\* Row k of a store of n issues: created at tick k by createIssue, and either
\* never written again or written by updateStatus at tick 2n + 1 - k.
ListRow(content, k, n, updated) ==
    LET upd == IF updated THEN 2 * n + 1 - k ELSE k
    IN  [title |-> content.title, description |-> content.description,
         status |-> content.status, priority |-> content.priority,
         severity |-> content.severity, created_by |-> content.created_by,
         assigned_to |-> content.assigned_to,
         created_at |-> k, updated_at |-> upd,
         resolved_at |-> IF updated /\ IsResolvedOrClosed(content.status)
                         THEN Some(upd) ELSE NULL]

ListStores ==
    UNION {{[k \in 1..n |-> ListRow(c[k], k, n, u[k])] :
                c \in [1..n -> ListContents], u \in [1..n -> BOOLEAN]} :
           n \in 0..MaxListIssues}

\* req.query of GET /api/issues.
ListQueries ==
    [page : {Some(p) : p \in 1..MaxPage},
     limit : {Some(l) : l \in 1..MaxLimit},
     status : {undefined, Some("Open")},
     priority : {undefined, Some("High")},
     severity : {undefined, Some("Minor")},
     search : {undefined, Some(<<"a","b">>), Some(<<"_">>)},
     sortBy : {undefined, Some("priority"), Some("owner")},
     sortOrder : {undefined, Some("Asc"), Some("up")}]

\* req.query of GET /api/issues/my-issues: the controller reads these four.
MyIssuesQueries ==
    [page : {undefined} \cup {Some(p) : p \in 1..MaxPage},
     limit : {undefined} \cup {Some(l) : l \in 1..MaxLimit},
     status : {undefined, Some("Open")},
     priority : {undefined, Some("High")}]

\* IssueController.getAllIssues: the options handed to IssueModel.getAllIssues.
getAllIssuesOptions(query) ==
    [page |-> Some(OrDefault(query.page, 1)),
     limit |-> Some(OrDefault(query.limit, 10)),
     status |-> query.status,
     priority |-> query.priority,
     severity |-> query.severity,
     search |-> query.search,
     sortBy |-> Some(OrDefault(query.sortBy, "created_at")),
     sortOrder |-> Some(OrDefault(query.sortOrder, "desc")),
     createdBy |-> undefined]

\* IssueController.getMyIssues: the options handed to IssueModel.getAllIssues.
getMyIssuesOptions(query, user) ==
    [page |-> Some(OrDefault(query.page, 1)),
     limit |-> Some(OrDefault(query.limit, 10)),
     status |-> query.status,
     priority |-> query.priority,
     severity |-> undefined,
     search |-> undefined,
     sortBy |-> undefined,
     sortOrder |-> undefined,
     createdBy |-> Some(user.userId)]

InitList ==
    /\ issues \in ListStores
    /\ users = InitUsers
    /\ nextUserId = Cardinality(DOMAIN InitUsers) + 1
    /\ nextIssueId = Cardinality(DOMAIN issues) + 1
    /\ now = 2 * Cardinality(DOMAIN issues)
    /\ last = NoCall
    /\ listing = NULL
    /\ pc = Idle
    /\ req = Idle
    /\ resp = Idle

\* The answer of a list request: the options, the order the store produced
\* and what IssueModel.getAllIssues returned.
Listed(op, options, ord) ==
    Some([op |-> op, options |-> options, ord |-> ord,
          result |-> getAllIssues(issues, users, options, ord)])

\* req.query of GET /api/issues/export/csv and /export/json.
ExportQueries ==
    [status : {undefined, Some("Open")},
     priority : {undefined, Some("High")},
     severity : {undefined, Some("Minor")},
     search : {undefined, Some(<<"a","b">>), Some(<<"_">>)}]

\* IssueController.exportCSV and exportJSON: the options handed to
\* IssueModel.getIssuesForExport, which reads these four.
exportOptions(query) ==
    [status |-> query.status, priority |-> query.priority,
     severity |-> query.severity, search |-> query.search,
     createdBy |-> undefined]

\* GET /api/issues/export/csv and GET /api/issues/export/json: last records
\* the options, the order the store produced and the rows the repository
\* returned, which the export helper renders.
ExportIssues(format) ==
    /\ listing = NULL
    /\ last = NoCall
    /\ \E query \in ExportQueries :
          LET options == exportOptions(query)
          IN  \E ord \in exportOrders(issues) :
                  last' = [op |-> format, id |-> 0, user |-> NULL, body |-> EmptyBody,
                           before |-> issues, affectedRows |-> 0, outcome |-> "success",
                           options |-> options, ord |-> ord,
                           rows |-> getIssuesForExport(issues, users, options, ord)]
    /\ UNCHANGED <<issues, users, nextUserId, nextIssueId, now, listing, pc, req, resp>>

ExportCSV == ExportIssues("exportCSV")
ExportJSON == ExportIssues("exportJSON")

\* GET /api/issues
ListAllIssues ==
    /\ listing = NULL
    /\ last = NoCall
    /\ \E query \in ListQueries :
          LET options == getAllIssuesOptions(query)
          IN  \E ord \in listOrders(issues, options) :
                  listing' = Listed("getAllIssues", options, ord)
    /\ UNCHANGED <<issues, users, nextUserId, nextIssueId, now, last, pc, req, resp>>

\* GET /api/issues/my-issues
ListMyIssues ==
    /\ listing = NULL
    /\ last = NoCall
    /\ \E query \in MyIssuesQueries, u \in UserIds :
          LET options == getMyIssuesOptions(query, TokenPayload(u))
          IN  \E ord \in listOrders(issues, options) :
                  listing' = Listed("getMyIssues", options, ord)
    /\ UNCHANGED <<issues, users, nextUserId, nextIssueId, now, last, pc, req, resp>>

NextList ==
    \/ ListAllIssues
    \/ ListMyIssues
    \/ ExportCSV
    \/ ExportJSON

SpecList == InitList /\ [][NextList]_vars


(***************************************************************************)
(* Properties of the sequential specification.                             *)
(***************************************************************************)

\* The row an id had before the last request, and has now.
RowBefore == last.before[last.id]
RowNow == issues[last.id]

\* C1: every stored issue has resolved_at non-null exactly when its status is
\* Resolved or Closed, after any sequence of create, PUT and PATCH requests.
C1_ResolvedAtIffResolved ==
    \A id \in DOMAIN issues :
        (issues[id].resolved_at # NULL) <=> IsResolvedOrClosed(issues[id].status)

\* C5: after updateStatus(id, S) on an existing issue, getIssueById(id) shows
\* status S, resolved_at non-null for Resolved and Closed and null for Open
\* and In Progress, and every other column but updated_at as it was.
C5_UpdateStatusEffect ==
    (last.op = "updateStatus" /\ last.id \in DOMAIN last.before) =>
        LET S == last.body.status[1]
            fetched == getIssueById(issues, users, last.id)
        IN  /\ last.affectedRows = 1
            /\ fetched # NULL
            /\ fetched[1].status = S
            /\ IsResolvedOrClosed(S) => fetched[1].resolved_at # NULL
            /\ ~IsResolvedOrClosed(S) => fetched[1].resolved_at = NULL
            /\ fetched[1].title = RowBefore.title
            /\ fetched[1].description = RowBefore.description
            /\ fetched[1].priority = RowBefore.priority
            /\ fetched[1].severity = RowBefore.severity
            /\ fetched[1].created_by = RowBefore.created_by
            /\ fetched[1].assigned_to = RowBefore.assigned_to
            /\ fetched[1].created_at = RowBefore.created_at
            /\ \A other \in DOMAIN last.before \ {last.id} :
                  other \in DOMAIN issues /\ issues[other] = last.before[other]

\* C5 witness: a PATCH to Open answered for an issue that was Resolved with a
\* resolved_at stamp.
C5_Witness ==
    /\ last.op = "updateStatus"
    /\ last.id \in DOMAIN last.before
    /\ RowBefore.status = "Resolved"
    /\ RowBefore.resolved_at # NULL
    /\ last.body.status = Some("Open")
    /\ RowNow.resolved_at = NULL

\* C6: the row POST /api/issues stores has created_by equal to req.user.userId
\* whatever createdBy the body carries, the documented default in every
\* optional column the body omits, and resolved_at null.
C6_CreateDefaults ==
    last.op = "createIssue" =>
        /\ last.id \in DOMAIN issues
        /\ last.id \notin DOMAIN last.before
        /\ RowNow.created_by = last.user[1].userId
        /\ RowNow.title = last.body.title[1]
        /\ last.body.status = undefined => RowNow.status = "Open"
        /\ last.body.priority = undefined => RowNow.priority = "Medium"
        /\ last.body.severity = undefined => RowNow.severity = "Minor"
        /\ last.body.description = undefined => RowNow.description = NULL
        /\ last.body.assignedTo = undefined => RowNow.assigned_to = NULL
        /\ last.body.status # undefined => RowNow.status = last.body.status[1]
        /\ last.body.priority # undefined => RowNow.priority = last.body.priority[1]
        /\ last.body.severity # undefined => RowNow.severity = last.body.severity[1]
        /\ RowNow.resolved_at = NULL

\* C6 witness: user 1 posted a body that names user 2 as createdBy and omits
\* priority and severity.
C6_Witness ==
    /\ last.op = "createIssue"
    /\ last.user[1].userId = 1
    /\ last.body.createdBy = Some(2)
    /\ last.body.priority = undefined
    /\ RowNow.created_by = 1
    /\ RowNow.priority = "Medium"

\* C7: updateIssue(id, partialFields) on an existing issue leaves every
\* updatable column whose field is absent as it was and sets every supplied
\* one to the supplied value; created_by, created_at and every other row are
\* untouched and resolved_at changes only as the side effect of a supplied
\* Resolved or Closed; with no field supplied it reports zero affected rows
\* and the row, updated_at included, is unchanged.
C7_PartialUpdate ==
    (last.op = "updateIssue" /\ last.id \in DOMAIN last.before) =>
        LET b == last.body
        IN  /\ last.id \in DOMAIN issues
            /\ RowNow.title = IF b.title # undefined THEN b.title[1] ELSE RowBefore.title
            /\ RowNow.description =
                  IF b.description # undefined THEN b.description[1]
                  ELSE RowBefore.description
            /\ RowNow.status = IF b.status # undefined THEN b.status[1] ELSE RowBefore.status
            /\ RowNow.priority =
                  IF b.priority # undefined THEN b.priority[1] ELSE RowBefore.priority
            /\ RowNow.severity =
                  IF b.severity # undefined THEN b.severity[1] ELSE RowBefore.severity
            /\ RowNow.assigned_to =
                  IF b.assignedTo # undefined THEN b.assignedTo[1]
                  ELSE RowBefore.assigned_to
            /\ RowNow.created_by = RowBefore.created_by
            /\ RowNow.created_at = RowBefore.created_at
            /\ ~(b.status # undefined /\ IsResolvedOrClosed(b.status[1]))
                  => RowNow.resolved_at = RowBefore.resolved_at
            /\ \A other \in DOMAIN last.before \ {last.id} :
                  other \in DOMAIN issues /\ issues[other] = last.before[other]
            /\ (\A f \in {"title", "description", "status", "priority", "severity",
                          "assignedTo"} : b[f] = undefined)
                  => /\ last.affectedRows = 0
                     /\ issues = last.before
            /\ (\E f \in {"title", "description", "status", "priority", "severity",
                          "assignedTo"} : b[f] # undefined)
                  => /\ last.affectedRows = 1
                     /\ RowNow.updated_at > RowBefore.updated_at

\* C7 witness: a PUT that supplied description only was applied to an issue
\* whose status, priority and assignee differ from the defaults.
C7_Witness ==
    /\ last.op = "updateIssue"
    /\ last.id \in DOMAIN last.before
    /\ last.body.description = Some(NULL)
    /\ last.body.title = undefined
    /\ last.body.status = undefined
    /\ RowBefore.description # NULL
    /\ RowNow.description = NULL
    /\ RowNow.status = "Resolved"
    /\ last.affectedRows = 1

\* Every list request the listing specification sends, as options of
\* IssueModel.getAllIssues.
AllListOptions ==
    {getAllIssuesOptions(q) : q \in ListQueries} \cup
    {getMyIssuesOptions(q, TokenPayload(u)) : q \in MyIssuesQueries, u \in UserIds}

\* An issue id is in no page of any list request, in no export and counted
\* nowhere.
AbsentFromReads(id) ==
    /\ getIssueById(issues, users, id) = NULL
    /\ \A options \in AllListOptions : \A ord \in listOrders(issues, options) :
          \A k \in DOMAIN getAllIssues(issues, users, options, ord).issues :
              getAllIssues(issues, users, options, ord).issues[k].issue_id # id
    /\ \A options \in AllListOptions : \A ord \in exportOrders(issues) :
          \A k \in DOMAIN getIssuesForExport(issues, users, options, ord) :
              getIssuesForExport(issues, users, options, ord)[k].issue_id # id
    /\ getStatusCounts(issues)["total"] = Cardinality(DOMAIN issues)
    /\ \A st \in VALID_STATUSES :
          getStatusCounts(issues)[st] =
              Cardinality({i \in DOMAIN last.before \ {id} : last.before[i].status = st})

\* C8: DELETE of an id without a row answers 404 and leaves the table as it
\* was; DELETE of an existing id removes that row and no other, and the issue
\* is then absent from getById, every list page, the export and the counts.
C8_DeleteEffect ==
    last.op = "deleteIssue" =>
        IF last.id \notin DOMAIN last.before
        THEN /\ last.outcome = "notFound"
             /\ issues = last.before
        ELSE /\ last.outcome = "success"
             /\ last.affectedRows = 1
             /\ DOMAIN issues = DOMAIN last.before \ {last.id}
             /\ \A other \in DOMAIN issues : issues[other] = last.before[other]
             /\ AbsentFromReads(last.id)

\* C8 witness: one of two stored issues was deleted and the other is left.
C8_Witness ==
    /\ last.op = "deleteIssue"
    /\ last.outcome = "success"
    /\ Cardinality(DOMAIN last.before) = 2
    /\ Cardinality(DOMAIN issues) = 1

\* C19: an updateIssue or updateStatus call stamps resolved_at only when it
\* moves the issue into Resolved or Closed from a status outside that pair; a
\* call whose status equals the issue's current Resolved or Closed status
\* leaves the resolved_at the issue had.
C19_StampOnlyOnTransition ==
    (/\ last.op \in {"updateIssue", "updateStatus"}
     /\ last.outcome = "success"
     /\ last.body.status # undefined) =>
        LET old == RowBefore.status
            new == last.body.status[1]
        IN  /\ (new \in {"Resolved", "Closed"} /\ old = new) =>
                  RowNow.resolved_at = RowBefore.resolved_at
            /\ (RowNow.resolved_at # NULL /\ RowNow.resolved_at # RowBefore.resolved_at) =>
                  (old \notin {"Resolved", "Closed"} /\ new \in {"Resolved", "Closed"})

\* The number of stored issues with a status.
StoredWith(status) == Cardinality({id \in DOMAIN issues : issues[id].status = status})

\* C12: in every reachable state the status counts are a mapping with exactly
\* the keys Open, In Progress, Resolved, Closed and total, each status key
\* holding the number of stored issues with that status (zero when there is
\* none) and total holding the sum of the four, the number of stored issues;
\* a stats request is answered with that mapping.
C12_StatusCountsComplete ==
    LET counts == getStatusCounts(issues)
    IN  /\ DOMAIN counts = {"Open", "In Progress", "Resolved", "Closed", "total"}
        /\ \A status \in {"Open", "In Progress", "Resolved", "Closed"} :
              counts[status] = StoredWith(status)
        /\ counts["total"] = counts["Open"] + counts["In Progress"]
                                + counts["Resolved"] + counts["Closed"]
        /\ counts["total"] = Cardinality(DOMAIN issues)
        /\ last.op = "getStatusCounts" => last.counts = counts

\* C12 witness: a stats request was answered over two issues, none of them
\* Open, one of them Resolved.
C12_Witness ==
    /\ last.op = "getStatusCounts"
    /\ Cardinality(DOMAIN issues) = 2
    /\ StoredWith("Open") = 0
    /\ StoredWith("Resolved") = 1
    /\ last.counts["total"] = 2


(***************************************************************************)
(* Properties of the listing specification.                                *)
(***************************************************************************)

\* The ids of the rows a list request returned, in order.
ListedIds ==
    [k \in DOMAIN listing[1].result.issues |-> listing[1].result.issues[k].issue_id]

\* The ids the page query of the answered request returns on page p.
PageIds(p) ==
    LET r == getAllIssues(issues, users,
                          [listing[1].options EXCEPT !.page = Some(p)], listing[1].ord)
    IN  {r.issues[k].issue_id : k \in DOMAIN r.issues}

\* C9: the total a list request reports is the number of stored issues that
\* satisfy the filters of the query, which is the number of rows its pages
\* hold together, whatever page and limit are and however many rows the page
\* returned; totalPages is the least number of pages of limit rows that hold
\* total rows, ceil(total / limit).
C9_TotalCountsMatches ==
    listing # NULL =>
        LET options == listing[1].options
            r == listing[1].result
            limit == options.limit[1]
        IN  /\ r.total = Cardinality({id \in DOMAIN issues :
                                         whereClause(issues[id], options)})
            /\ r.total = Cardinality(UNION {PageIds(p) : p \in 1..(r.total + 1)})
            /\ \A p \in 1..MaxPage, l \in 1..MaxLimit :
                  getAllIssues(issues, users,
                               [options EXCEPT !.page = Some(p), !.limit = Some(l)],
                               listing[1].ord).total = r.total
            /\ r.totalPages * limit >= r.total
            /\ (r.totalPages - 1) * limit < r.total
            /\ r.perPage = limit

\* C9 witness: a filtered request for page 2 of limit 1 got one row and the
\* total 2 in 2 pages.
C9_Witness ==
    /\ listing # NULL
    /\ listing[1].options.status # undefined
    /\ listing[1].options.limit = Some(1)
    /\ listing[1].options.page = Some(2)
    /\ Len(listing[1].result.issues) = 1
    /\ listing[1].result.total = 2
    /\ listing[1].result.totalPages = 2

\* Letter case folded over a text.
LowerText(text) == [k \in DOMAIN text |-> Lower(text[k])]

\* term is a substring of text, letter case ignored.
ContainsFold(text, term) ==
    \E i \in 0..(Len(text) - Len(term)) :
        \A k \in 1..Len(term) : LowerText(text)[i + k] = LowerText(term)[k]

\* The filters of a list request as the specification words them: exact match
\* on status, priority, severity and creator id, and the search term as a
\* case-insensitive substring of title or description, all joined by AND.
SatisfiesFilters(row, options) ==
    /\ options.status # undefined => row.status = options.status[1]
    /\ options.priority # undefined => row.priority = options.priority[1]
    /\ options.severity # undefined => row.severity = options.severity[1]
    /\ options.createdBy # undefined => row.created_by = options.createdBy[1]
    /\ options.search # undefined =>
          \/ ContainsFold(row.title, options.search[1])
          \/ row.description # NULL /\ ContainsFold(row.description[1], options.search[1])

\* C10: the rows of page p with limit l are the rows at positions
\* (p-1)*l+1 .. p*l of the issues that satisfy every supplied filter, in the
\* requested sort order: at most l rows, each satisfying all filters.
C10_PageOfFiltered ==
    listing # NULL =>
        LET options == listing[1].options
            p == options.page[1]
            l == options.limit[1]
            matching == SelectSeq(listing[1].ord,
                                  LAMBDA id : SatisfiesFilters(issues[id], options))
        IN  /\ Len(ListedIds) <= l
            /\ \A k \in DOMAIN ListedIds : SatisfiesFilters(issues[ListedIds[k]], options)
            /\ \A k \in 1..l :
                  IF (p - 1) * l + k <= Len(matching)
                  THEN k \in DOMAIN ListedIds /\ ListedIds[k] = matching[(p - 1) * l + k]
                  ELSE k \notin DOMAIN ListedIds

\* The columns a list request may be ordered by.
SortAllowList == {"created_at", "updated_at", "title", "priority", "status", "severity"}

\* The spellings of ascending, in any letter case.
AscendingSpellings == {"asc", "Asc", "aSc", "asC", "ASc", "AsC", "aSC", "ASC"}

\* The rows of ord come in the order of column, ascending or descending.
InOrder(ord, column, ascending) ==
    \A i, j \in DOMAIN ord :
        i < j => IF ascending
                 THEN ~ColumnLess(issues[ord[j]], issues[ord[i]], column)
                 ELSE ~ColumnLess(issues[ord[i]], issues[ord[j]], column)

\* C11: a list request is answered in the order of a column of the allow-list
\* {created_at, updated_at, title, priority, status, severity}: the requested
\* sortBy when it is in the list, created_at otherwise, with a result and no
\* error; the direction is ascending when sortOrder spells asc in any letter
\* case and descending for every other value.
C11_SortColumnAllowListed ==
    listing # NULL =>
        LET options == listing[1].options
            sortBy == IF options.sortBy = undefined THEN "created_at" ELSE options.sortBy[1]
            column == IF sortBy \in SortAllowList THEN sortBy ELSE "created_at"
            ascending == options.sortOrder # undefined
                         /\ options.sortOrder[1] \in AscendingSpellings
        IN  /\ column \in SortAllowList
            /\ InOrder(listing[1].ord, column, ascending)
            /\ \A i, j \in DOMAIN ListedIds :
                  i < j => \E m, n \in DOMAIN listing[1].ord :
                              /\ m < n
                              /\ listing[1].ord[m] = ListedIds[i]
                              /\ listing[1].ord[n] = ListedIds[j]

\* C11 witness: a request sorted by a field outside the allow-list, in a
\* direction that is not a spelling of asc, got two rows of different
\* severity, the newer one first.
C11_Witness ==
    /\ listing # NULL
    /\ listing[1].options.sortBy = Some("owner")
    /\ listing[1].options.sortOrder = Some("up")
    /\ Len(listing[1].result.issues) = 2
    /\ listing[1].result.issues[1].severity # listing[1].result.issues[2].severity
    /\ listing[1].result.issues[1].created_at > listing[1].result.issues[2].created_at

\* The ids of pages p, p + 1, ... up to the last page of the list query, one
\* after the other.
RECURSIVE ConcatPages(_, _, _)
ConcatPages(options, ord, p) ==
    LET r == getAllIssues(issues, users, [options EXCEPT !.page = Some(p)], ord)
        ids == [k \in DOMAIN r.issues |-> r.issues[k].issue_id]
    IN  IF p > r.totalPages THEN <<>>
        ELSE ids \o ConcatPages(options, ord, p + 1)

\* The list query with the filters of an export, newest first, limit rows a
\* page.
ListLikeExport(options, limit) ==
    getAllIssuesOptions([page |-> Some(1), limit |-> Some(limit),
                         status |-> options.status, priority |-> options.priority,
                         severity |-> options.severity, search |-> options.search,
                         sortBy |-> Some("created_at"), sortOrder |-> Some("desc")])

\* The ids of the rows an export returned, in order.
ExportedIds == [k \in DOMAIN last.rows |-> last.rows[k].issue_id]

Token(u, signed, expired) ==
    [payload |-> TokenPayload(u), signed |-> signed, expired |-> expired]

\* generateToken: a signed, unexpired token for a row of users.
generateToken(u) == Token(u, TRUE, FALSE)

\* jwt.verify(token, JWT_SECRET): the decoded payload, or the error thrown.
\* The signature is checked before the expiry.  generateToken signs with
\* expiresIn only, so no token that verifies against JWT_SECRET carries a
\* not-before time and the library's NotBeforeError has no token to arise from.
jwtVerify(token) ==
    IF ~token.signed
    THEN [ok |-> FALSE, decoded |-> NULL,
          error |-> Some([name |-> "JsonWebTokenError", message |-> "invalid signature"])]
    ELSE IF token.expired
    THEN [ok |-> FALSE, decoded |-> NULL,
          error |-> Some([name |-> "TokenExpiredError", message |-> "jwt expired"])]
    ELSE [ok |-> TRUE, decoded |-> Some(token.payload), error |-> NULL]

UnauthorizedError(message) == [name |-> "UnauthorizedError", message |-> message]

\* The try block of authenticate: the req.user it attaches, or what it throws.
\* authorization is undefined or the header split at spaces.
authenticateTry(headers) ==
    IF headers.authorization = undefined
    THEN [user |-> NULL,
          thrown |-> Some(UnauthorizedError("No authorization token provided"))]
    ELSE LET parts == headers.authorization[1]
         IN  IF Len(parts) # 2 \/ parts[1] # "Bearer"
             THEN [user |-> NULL,
                   thrown |-> Some(UnauthorizedError(
                       "Invalid authorization header format. Use: Bearer <token>"))]
             ELSE LET verified == jwtVerify(parts[2])
                  IN  IF verified.ok
                      THEN [user |-> Some([userId |-> verified.decoded[1].userId,
                                           email |-> verified.decoded[1].email,
                                           name |-> verified.decoded[1].name]),
                            thrown |-> NULL]
                      ELSE [user |-> NULL, thrown |-> verified.error]

\* Mutant of authenticateCatch: the TokenExpiredError branch is missing and
\* the library's error goes to next(error) as it is.
authenticateCatch_NoExpiredBranch(error) ==
    IF error.name = "JsonWebTokenError" THEN UnauthorizedError("Invalid token")
    ELSE error

\* The catch block of authenticate: the error handed to next().
authenticateCatch(error) ==
    IF error.name = "JsonWebTokenError" THEN UnauthorizedError("Invalid token")
    ELSE IF error.name = "TokenExpiredError" THEN UnauthorizedError("Token has expired")
    ELSE error

\* Mutant of authenticate: after a token verified, the row of users it names
\* is looked up and a missing or disabled account is turned away.
authenticate_EnabledOnly(headers) ==
    LET tried == authenticateTry(headers)
    IN  IF tried.thrown # NULL
        THEN [user |-> NULL, error |-> Some(authenticateCatch(tried.thrown[1]))]
        ELSE IF tried.user[1].userId \in DOMAIN users
                /\ users[tried.user[1].userId].is_enabled
        THEN [user |-> tried.user, error |-> NULL]
        ELSE [user |-> NULL, error |-> Some(UnauthorizedError("Account disabled"))]

\* Mutant of authenticate: the body of optionalAuth, which treats a missing or
\* bad token as an anonymous caller and calls next().
authenticate_Optional(headers) ==
    [user |-> authenticateTry(headers).user, error |-> NULL]

\* authenticate: req.user and next() when error is NULL, next(error) otherwise.
authenticate(headers) ==
    LET tried == authenticateTry(headers)
    IN  IF tried.thrown = NULL
        THEN [user |-> tried.user, error |-> NULL]
        ELSE [user |-> NULL, error |-> Some(authenticateCatch(tried.thrown[1]))]

\* The centralized error handler: the outcome it reports for an error.
errorOutcome(error) ==
    CASE error.name = "UnauthorizedError" -> "unauthorized"
      [] error.name = "ValidationError" -> "validationError"
      [] error.name = "NotFoundError" -> "notFound"
      [] error.name = "ConflictError" -> "conflict"
      [] OTHER -> "internalError"

\* The validators of a route followed by validateRequest: the body passes when
\* every enum field it carries is a known label, POST carries a title and
\* PATCH a status.
validateRequest(route, body) ==
    /\ body.status # undefined => body.status[1] \in VALID_STATUSES
    /\ body.priority # undefined => body.priority[1] \in VALID_PRIORITIES
    /\ body.severity # undefined => body.severity[1] \in VALID_SEVERITIES
    /\ route = "POST /" => body.title # undefined
    /\ route = "PATCH /:id/status" => body.status # undefined

(***************************************************************************)
(* Concurrent specification: the requests of two clients in flight, each   *)
(* running the chain of /api/issues (authenticate, validators, controller), *)
(* the controllers interleaving at their awaits.                           *)
(***************************************************************************)
Clients == {"A", "B"}

\* Issues created while the clients' requests interleave.
MaxChainIssues == 1

Authorizations ==
    {undefined,
     Some(<<"Bearer">>),
     Some(<<"Basic", generateToken(1)>>),
     Some(<<"Bearer", generateToken(1)>>),
     Some(<<"Bearer", generateToken(2)>>),
     Some(<<"Bearer", Token(1, TRUE, TRUE)>>),
     Some(<<"Bearer", Token(1, FALSE, FALSE)>>)}

\* Route, :id and body of the requests the clients send: the ids are those
\* the store has issued so far and the next one, which no row carries yet.
\* For a GET route body holds the values of req.query.
Calls ==
    {[route |-> "POST /", id |-> 0, body |-> [EmptyBody EXCEPT !.title = Some(TitleA)]]}
    \cup [route : {"GET /:id", "DELETE /:id"}, id : 1..nextIssueId, body : {EmptyBody}]
    \cup [route : {"PUT /:id"}, id : 1..nextIssueId,
          body : {EmptyBody, [EmptyBody EXCEPT !.status = Some("Closed")]}]
    \cup [route : {"PATCH /:id/status"}, id : 1..nextIssueId,
          body : {StatusBody("Resolved"), StatusBody("Bogus")}]
    \cup {[route |-> "GET /export/csv", id |-> 0, body |-> StatusBody("Open")],
          [route |-> "GET /export/csv", id |-> 0, body |-> StatusBody("Bogus")],
          [route |-> "GET /export/json", id |-> 0, body |-> StatusBody("Bogus")]}

NoRequest ==
    [route |-> "none", id |-> 0, body |-> EmptyBody,
     headers |-> [authorization |-> undefined], user |-> NULL, ran |-> <<>>]

NoResponse == [outcome |-> "none", error |-> NULL, data |-> NULL]

ErrorResponse(error) ==
    [outcome |-> errorOutcome(error), error |-> Some(error), data |-> NULL]

\* The routes whose chain holds validators and validateRequest in front of
\* the controller; the export routes go from authenticate to the controller.
HasValidators(route) == route \notin {"GET /export/csv", "GET /export/json"}

\* The first await of the controller a route is wired to.
ControllerOf(route) ==
    CASE route = "POST /" -> "createIssue"
      [] route = "GET /export/csv" -> "exportCSV"
      [] route = "GET /export/json" -> "exportJSON"
      [] route = "GET /:id" -> "getIssueById"
      [] route = "PUT /:id" -> "updateIssue"
      [] route = "PATCH /:id/status" -> "updateStatus"
      [] OTHER -> "deleteIssue"

Init ==
    /\ issues = NoIssues
    /\ users = InitUsers
    /\ nextUserId = Cardinality(DOMAIN InitUsers) + 1
    /\ nextIssueId = 1
    /\ now = 0
    /\ last = NoCall
    /\ listing = NULL
    /\ pc = [c \in Clients |-> "idle"]
    /\ req = [c \in Clients |-> NoRequest]
    /\ resp = [c \in Clients |-> NoResponse]

Store == <<issues, nextIssueId, now>>

\* What a chain step leaves alone besides the store and its own client.
Rest == <<users, nextUserId, last, listing>>

\* The end of a request: its response is sent.
Finish(c, response) ==
    /\ pc' = [pc EXCEPT ![c] = "done"]
    /\ resp' = [resp EXCEPT ![c] = response]

\* A request arrives and router.use(authenticate) runs on it.
Authenticate(c) ==
    /\ pc[c] = "idle"
    /\ \E call \in Calls, authorization \in Authorizations :
          LET headers == [authorization |-> authorization]
              auth == authenticate(headers)
          IN  /\ req' = [req EXCEPT ![c] =
                            [route |-> call.route, id |-> call.id, body |-> call.body,
                             headers |-> headers, user |-> auth.user,
                             ran |-> <<"authenticate">>]]
              /\ IF auth.error = NULL
                 THEN /\ pc' = [pc EXCEPT ![c] = IF HasValidators(call.route)
                                                 THEN "validate"
                                                 ELSE ControllerOf(call.route)]
                      /\ UNCHANGED resp
                 ELSE Finish(c, ErrorResponse(auth.error[1]))
    /\ UNCHANGED <<Store, Rest>>

\* The validators of the route and validateRequest.
Validate(c) ==
    /\ pc[c] = "validate"
    /\ req' = [req EXCEPT ![c].ran = Append(@, "validate")]
    /\ IF validateRequest(req[c].route, req[c].body)
       THEN /\ pc' = [pc EXCEPT ![c] = ControllerOf(req[c].route)]
            /\ UNCHANGED resp
       ELSE Finish(c, ErrorResponse([name |-> "ValidationError",
                                     message |-> "Validation failed"]))
    /\ UNCHANGED <<Store, Rest>>

\* IssueController.getIssueById
GetIssueById(c) ==
    /\ pc[c] = "getIssueById"
    /\ req' = [req EXCEPT ![c].ran = Append(@, "getIssueById")]
    /\ LET issue == getIssueById(issues, users, req[c].id)
       IN  IF issue = NULL
           THEN Finish(c, [outcome |-> "notFound", error |-> NULL, data |-> NULL])
           ELSE Finish(c, [outcome |-> "success", error |-> NULL,
                           data |-> Some(formatIssueResponse(issue[1]))])
    /\ UNCHANGED <<Store, Rest>>

\* IssueController.createIssue up to its first await: IssueModel.createIssue.
CreateIssueInsert(c) ==
    /\ pc[c] = "createIssue"
    /\ nextIssueId <= MaxChainIssues
    /\ now < MaxClock
    /\ issues' = createIssue(issues, nextIssueId,
                             createIssueData(req[c].body, req[c].user[1]), now + 1)
    /\ nextIssueId' = nextIssueId + 1
    /\ now' = now + 1
    /\ req' = [req EXCEPT ![c].ran = Append(@, "createIssue"), ![c].id = nextIssueId]
    /\ pc' = [pc EXCEPT ![c] = "createIssue_fetch"]
    /\ UNCHANGED <<resp, Rest>>

\* The existence check of updateIssue, updateStatus and deleteIssue.
CheckExists(c, controller) ==
    /\ pc[c] = controller
    /\ req' = [req EXCEPT ![c].ran = Append(@, controller)]
    /\ IF getIssueById(issues, users, req[c].id) = NULL
       THEN Finish(c, [outcome |-> "notFound", error |-> NULL, data |-> NULL])
       ELSE /\ pc' = [pc EXCEPT ![c] = controller \o "_write"]
            /\ UNCHANGED resp
    /\ UNCHANGED <<Store, Rest>>

UpdateIssueCheck(c) == CheckExists(c, "updateIssue")
UpdateStatusCheck(c) == CheckExists(c, "updateStatus")
DeleteIssueCheck(c) == CheckExists(c, "deleteIssue")

\* IssueController.updateIssue: await IssueModel.updateIssue.
UpdateIssueWrite(c) ==
    /\ pc[c] = "updateIssue_write"
    /\ LET issueData == updateIssueData(req[c].body)
       IN  IF NothingToUpdate(issueData)
           THEN UNCHANGED <<issues, now>>
           ELSE /\ now < MaxClock
                /\ issues' = updateIssue(issues, req[c].id, issueData, now + 1)
                /\ now' = now + 1
    /\ pc' = [pc EXCEPT ![c] = "updateIssue_fetch"]
    /\ UNCHANGED <<nextIssueId, req, resp, Rest>>

\* IssueController.updateStatus: await IssueModel.updateStatus.
UpdateStatusWrite(c) ==
    /\ pc[c] = "updateStatus_write"
    /\ now < MaxClock
    /\ issues' = updateStatus(issues, req[c].id, req[c].body.status[1], now + 1)
    /\ now' = now + 1
    /\ pc' = [pc EXCEPT ![c] = "updateStatus_fetch"]
    /\ UNCHANGED <<nextIssueId, req, resp, Rest>>

\* IssueController.deleteIssue: await IssueModel.deleteIssue, then the empty
\* success envelope.
DeleteIssueWrite(c) ==
    /\ pc[c] = "deleteIssue_write"
    /\ now < MaxClock
    /\ issues' = deleteIssue(issues, req[c].id)
    /\ now' = now + 1
    /\ Finish(c, [outcome |-> "success", error |-> NULL, data |-> NULL])
    /\ UNCHANGED <<nextIssueId, req, Rest>>

\* The last await of createIssue, updateIssue and updateStatus: the record is
\* fetched again, formatted and sent; a throw goes to next(error).
FetchAndRespond(c, at, okOutcome) ==
    /\ pc[c] = at
    /\ LET answer == Respond(okOutcome, getIssueById(issues, users, req[c].id))
       IN  IF answer.outcome = "internalError"
           THEN Finish(c, ErrorResponse([name |-> "TypeError",
                                         message |-> "Cannot read properties of null"]))
           ELSE Finish(c, [outcome |-> answer.outcome, error |-> NULL,
                           data |-> answer.data])
    /\ UNCHANGED <<Store, req, Rest>>

CreateIssueFetch(c) == FetchAndRespond(c, "createIssue_fetch", "created")
UpdateIssueFetch(c) == FetchAndRespond(c, "updateIssue_fetch", "success")
UpdateStatusFetch(c) == FetchAndRespond(c, "updateStatus_fetch", "success")

\* IssueController.exportCSV and exportJSON: await
\* IssueModel.getIssuesForExport with the values of req.query.  The store
\* refuses a comparison of the enum column with a label the enum lacks, and
\* the controller's catch hands that error to next(error).
ExportRun(c, controller) ==
    /\ pc[c] = controller
    /\ req' = [req EXCEPT ![c].ran = Append(@, controller)]
    /\ LET options == exportOptions([status |-> req[c].body.status,
                                     priority |-> req[c].body.priority,
                                     severity |-> req[c].body.severity,
                                     search |-> undefined])
       IN  IF Truthy(options.status) /\ options.status[1] \notin VALID_STATUSES
           THEN Finish(c, ErrorResponse([name |-> "error",
                                         message |-> "invalid input value for enum"]))
           ELSE \E ord \in exportOrders(issues) :
                    Finish(c, [outcome |-> "success", error |-> NULL,
                               data |-> Some(getIssuesForExport(issues, users,
                                                                options, ord))])
    /\ UNCHANGED <<Store, Rest>>

ExportCSVRun(c) == ExportRun(c, "exportCSV")
ExportJSONRun(c) == ExportRun(c, "exportJSON")

\* The connection of a finished request is free for the next one.
Reset(c) ==
    /\ pc[c] = "done"
    /\ pc' = [pc EXCEPT ![c] = "idle"]
    /\ req' = [req EXCEPT ![c] = NoRequest]
    /\ resp' = [resp EXCEPT ![c] = NoResponse]
    /\ UNCHANGED <<Store, Rest>>

Next ==
    \E c \in Clients :
        \/ Authenticate(c)
        \/ Validate(c)
        \/ GetIssueById(c)
        \/ CreateIssueInsert(c)
        \/ CreateIssueFetch(c)
        \/ UpdateIssueCheck(c)
        \/ UpdateIssueWrite(c)
        \/ UpdateIssueFetch(c)
        \/ UpdateStatusCheck(c)
        \/ UpdateStatusWrite(c)
        \/ UpdateStatusFetch(c)
        \/ DeleteIssueCheck(c)
        \/ DeleteIssueWrite(c)
        \/ ExportCSVRun(c)
        \/ ExportJSONRun(c)
        \/ Reset(c)

Spec == Init /\ [][Next]_vars


(***************************************************************************)
(* Properties of the concurrent specification.                             *)
(***************************************************************************)

\* The header is exactly "Bearer <token>" and the token verifies.
HasVerifiedBearer(headers) ==
    /\ headers.authorization # undefined
    /\ Len(headers.authorization[1]) = 2
    /\ headers.authorization[1][1] = "Bearer"
    /\ headers.authorization[1][2].signed
    /\ ~headers.authorization[1][2].expired

\* The request of c has been received and its chain has started.
InChain(c) == pc[c] # "idle"

\* The chain of c went past authenticate.
PastAuthenticate(c) == pc[c] \notin {"idle", "done"} \/ Len(req[c].ran) > 1

\* C2: on every /api/issues route a validator or controller runs only for a
\* request whose Authorization header is "Bearer <token>" with a token that
\* verifies, and then req.user is that token's payload; a request whose header
\* is missing, malformed or carries a failing token ends right after
\* authenticate with an unauthorized error, req.user never set.
C2_AuthenticateGatesChain ==
    \A c \in Clients :
        InChain(c) =>
            IF HasVerifiedBearer(req[c].headers)
            THEN req[c].user = Some(req[c].headers.authorization[1][2].payload)
            ELSE /\ ~PastAuthenticate(c)
                 /\ req[c].ran = <<"authenticate">>
                 /\ req[c].user = NULL
                 /\ resp[c].error # NULL
                 /\ resp[c].outcome = "unauthorized"
                 /\ resp[c].data = NULL

\* One client was turned away at authenticate while the other, holding a valid
\* token, has run its controller against the store.
C2_Witness ==
    \E c, d \in Clients :
        /\ pc[c] = "done"
        /\ ~HasVerifiedBearer(req[c].headers)
        /\ resp[c].outcome = "unauthorized"
        /\ HasVerifiedBearer(req[d].headers)
        /\ Len(req[d].ran) = 3
        /\ issues # NoIssues

\* The reason an Authorization header fails, "none" when it does not.
FailureReason(headers) ==
    IF headers.authorization = undefined THEN "missing header"
    ELSE IF Len(headers.authorization[1]) # 2 \/ headers.authorization[1][1] # "Bearer"
    THEN "malformed header"
    ELSE IF ~headers.authorization[1][2].signed THEN "invalid token"
    ELSE IF headers.authorization[1][2].expired THEN "expired token"
    ELSE "none"

\* authenticate ended the request of c.
AuthenticationFailed(c) ==
    pc[c] = "done" /\ req[c].ran = <<"authenticate">> /\ resp[c].error # NULL

C4_UpdateEndsNotFoundOrSuccess ==
    \A c \in Clients :
        (/\ pc[c] = "done"
         /\ req[c].route \in {"PUT /:id", "PATCH /:id/status"}
         /\ Len(req[c].ran) = 3)
            => /\ resp[c].outcome \in {"notFound", "success"}
               /\ resp[c].outcome = "success" => resp[c].data # NULL


\* The controller of the request of c has run.
ControllerRan(c) ==
    \E k \in DOMAIN req[c].ran : req[c].ran[k] \notin {"authenticate", "validate"}

\* C17: on every issue route that takes client values, a controller, and so
\* a repository query, runs only on values that passed validation: a status,
\* priority or severity that is not a label of its enum is answered as a
\* validation error before the controller is entered.
C17_ValidatedBeforeRepository ==
    \A c \in Clients :
        /\ ControllerRan(c) =>
              /\ req[c].body.status # undefined => req[c].body.status[1] \in VALID_STATUSES
              /\ req[c].body.priority # undefined =>
                    req[c].body.priority[1] \in VALID_PRIORITIES
              /\ req[c].body.severity # undefined =>
                    req[c].body.severity[1] \in VALID_SEVERITIES
        /\ (/\ pc[c] = "done"
            /\ req[c].user # NULL
            /\ req[c].body.status # undefined
            /\ req[c].body.status[1] \notin VALID_STATUSES)
               => resp[c].outcome = "validationError"

(***************************************************************************)
(* User repository (AuthModel) and the constraints of table users.         *)
(***************************************************************************)

\* AuthModel.emailExists: COUNT(*) FROM users WHERE email = $1, is_enabled
\* not looked at.
emailExists(usr, email) == \E u \in DOMAIN usr : usr[u].email = email

\* The row INSERT INTO users (name, email, password_hash, ...) stores;
\* is_enabled takes its default.
createUserRow(userData) ==
    [name |-> userData.name, email |-> userData.email,
     password_hash |-> userData.passwordHash, is_enabled |-> TRUE]

\* Mutant of createUser: column email without UNIQUE.
createUser_NoUnique(usr, insertId, userData) ==
    (insertId :> createUserRow(userData)) @@ usr

\* AuthModel.createUser: table users after the INSERT that drew insertId from
\* the serial; email VARCHAR(255) NOT NULL UNIQUE makes the statement fail,
\* the table unchanged, when a row holds the email.
createUser(usr, insertId, userData) ==
    IF \E u \in DOMAIN usr : usr[u].email = userData.email
    THEN usr
    ELSE (insertId :> createUserRow(userData)) @@ usr

\* A row of users as the lookups return it.
UserRecord(usr, u) ==
    [user_id |-> u, name |-> usr[u].name, email |-> usr[u].email]

\* AuthModel.findByEmail: WHERE email = $1 AND is_enabled = true LIMIT 1.
findByEmail(usr, email) ==
    LET found == {u \in DOMAIN usr : usr[u].email = email /\ usr[u].is_enabled}
    IN  IF found = {} THEN NULL
        ELSE Some(UserRecord(usr, CHOOSE u \in found : TRUE))

\* AuthModel.findById: WHERE user_id = $1 AND is_enabled = true LIMIT 1.
findById(usr, userId) ==
    IF userId \in DOMAIN usr /\ usr[userId].is_enabled
    THEN Some(UserRecord(usr, userId)) ELSE NULL

\* AuthModel.getAllUsers: the rows WHERE is_enabled = true.
getAllUsers(usr) == {UserRecord(usr, u) : u \in {v \in DOMAIN usr : usr[v].is_enabled}}

\* AuthModel.updateUser: SET name WHERE user_id = $2 AND is_enabled = true.
updateUser(usr, userId, userData) ==
    IF userId \in DOMAIN usr /\ usr[userId].is_enabled
    THEN [usr EXCEPT ![userId].name = userData.name]
    ELSE usr

\* AuthModel.updatePassword: SET password_hash WHERE user_id = $2 AND
\* is_enabled = true.
updatePassword(usr, userId, passwordHash) ==
    IF userId \in DOMAIN usr /\ usr[userId].is_enabled
    THEN [usr EXCEPT ![userId].password_hash = passwordHash]
    ELSE usr

\* AuthModel.deleteUser: SET is_enabled = false WHERE user_id = $1.
deleteUser(usr, userId) ==
    IF userId \in DOMAIN usr THEN [usr EXCEPT ![userId].is_enabled = FALSE] ELSE usr

\* fk_issues_created_by and fk_issues_assigned_to hold for a row of issues.
foreignKeysHold(row, usr) ==
    /\ row.created_by \in DOMAIN usr
    /\ row.assigned_to = NULL \/ row.assigned_to[1] \in DOMAIN usr

\* fk_issues_created_by ... ON DELETE RESTRICT: the removal of a row of users
\* that an issue names as creator is refused.
onDeleteRestrict(iss, userId) == \E id \in DOMAIN iss : iss[id].created_by = userId

\* Mutant of onDeleteSetNull: fk_issues_assigned_to without its ON DELETE
\* action, the issues left as they are.
onDeleteSetNull_NoAction(iss, userId) == iss

\* fk_issues_assigned_to ... ON DELETE SET NULL: table issues after a row of
\* users is removed.
onDeleteSetNull(iss, userId) ==
    [id \in DOMAIN iss |->
        IF iss[id].assigned_to = Some(userId)
        THEN [iss[id] EXCEPT !.assigned_to = NULL]
        ELSE iss[id]]

(***************************************************************************)
(* Accounts specification: the user table changes (two registrations in    *)
(* flight, profile and password updates, soft deletes, removal of rows)    *)
(* while holders of tokens issued at the start work on issues.  Every      *)
(* statement that writes ticks the clock.                                  *)
(***************************************************************************)
MaxUsers == 4
MaxAcctIssues == 1

NameC == <<"c">>

\* Bodies of the registrations: an email a row already holds and a fresh one.
Registrations ==
    [name : {NameC}, email : {<<"a","@","x">>, <<"c","@","x">>},
     passwordHash : {"hash3"}]

AcctCreateBodies ==
    {[EmptyBody EXCEPT !.title = Some(TitleA)],
     [EmptyBody EXCEPT !.title = Some(TitleA), !.assignedTo = Some(Some(2))]}

AcctUpdateBodies ==
    {[EmptyBody EXCEPT !.status = Some("Closed")],
     [EmptyBody EXCEPT !.assignedTo = Some(Some(3))]}

NoRegistration ==
    [name |-> <<>>, email |-> <<>>, passwordHash |-> "", held |-> FALSE,
     added |-> FALSE, outcome |-> "none"]

InitAcct ==
    /\ issues = NoIssues
    /\ users = InitUsers
    /\ nextUserId = Cardinality(DOMAIN InitUsers) + 1
    /\ nextIssueId = 1
    /\ now = 0
    /\ last = NoCall
    /\ listing = NULL
    /\ pc = [c \in Clients |-> "idle"]
    /\ req = [c \in Clients |-> NoRegistration]
    /\ resp = Idle

\* What last records of a request of this specification.
AcctCall(op, id, user, body, outcome, data) ==
    [op |-> op, id |-> id, user |-> user, body |-> body, before |-> issues,
     usersBefore |-> users, affectedRows |-> 0, outcome |-> outcome, data |-> data]

\* Registration, first await: AuthModel.emailExists; a held email ends the
\* request with ConflictError.
RegisterCheck(c) ==
    /\ pc[c] = "idle"
    /\ \E userData \in Registrations :
          LET held == emailExists(users, userData.email)
          IN  /\ req' = [req EXCEPT ![c] =
                            [name |-> userData.name, email |-> userData.email,
                             passwordHash |-> userData.passwordHash, held |-> held,
                             added |-> FALSE,
                             outcome |-> IF held THEN "conflict" ELSE "none"]]
              /\ pc' = [pc EXCEPT ![c] = IF held THEN "done" ELSE "createUser"]
    /\ UNCHANGED <<issues, users, nextUserId, nextIssueId, now, last, listing, resp>>

\* Registration, second await: AuthModel.createUser.  The serial is drawn
\* whether or not the INSERT succeeds.
RegisterInsert(c) ==
    /\ pc[c] = "createUser"
    /\ nextUserId <= MaxUsers
    /\ now < MaxClock
    /\ LET userData == [name |-> req[c].name, email |-> req[c].email,
                        passwordHash |-> req[c].passwordHash]
           stored == createUser(users, nextUserId, userData)
       IN  /\ users' = stored
           /\ req' = [req EXCEPT ![c].held = emailExists(users, userData.email),
                                 ![c].added = (stored # users),
                                 ![c].outcome = IF stored # users THEN "created"
                                                ELSE "internalError"]
           /\ last' = AcctCall("createUser", nextUserId, NULL, EmptyBody,
                               IF stored # users THEN "created" ELSE "internalError",
                               NULL)
    /\ nextUserId' = nextUserId + 1
    /\ now' = now + 1
    /\ pc' = [pc EXCEPT ![c] = "done"]
    /\ UNCHANGED <<issues, nextIssueId, listing, resp>>

\* A write to table users through a method of AuthModel.
UserWrite(op, userId, stored) ==
    /\ now < MaxClock
    /\ users' = stored
    /\ now' = now + 1
    /\ last' = AcctCall(op, userId, NULL, EmptyBody,
                        IF stored # users THEN "success" ELSE "notFound", NULL)
    /\ UNCHANGED <<issues, nextUserId, nextIssueId, listing, pc, req, resp>>

\* AuthModel.updateUser
AcctUpdateUser ==
    \E userId \in 1..MaxUsers :
        UserWrite("updateUser", userId, updateUser(users, userId, [name |-> NameC]))

\* AuthModel.updatePassword
AcctUpdatePassword ==
    \E userId \in 1..MaxUsers :
        UserWrite("updatePassword", userId, updatePassword(users, userId, "hash4"))

\* AuthModel.deleteUser
AcctDeleteUser ==
    \E userId \in 1..MaxUsers :
        UserWrite("deleteUser", userId, deleteUser(users, userId))

\* DELETE FROM users WHERE user_id = u, as the foreign keys of table issues
\* let it proceed.
RemoveUserRow ==
    \E userId \in DOMAIN users :
        /\ now < MaxClock
        /\ now' = now + 1
        /\ IF onDeleteRestrict(issues, userId)
           THEN /\ UNCHANGED <<users, issues>>
                /\ last' = AcctCall("removeUserRow", userId, NULL, EmptyBody,
                                    "rejected", NULL)
           ELSE /\ users' = [u \in DOMAIN users \ {userId} |-> users[u]]
                /\ issues' = onDeleteSetNull(issues, userId)
                /\ last' = AcctCall("removeUserRow", userId, NULL, EmptyBody,
                                    "removed", NULL)
        /\ UNCHANGED <<nextUserId, nextIssueId, listing, pc, req, resp>>

\* The Authorization header of a holder of the token issued to user u.
BearerOf(u) == [authorization |-> Some(<<"Bearer", generateToken(u)>>)]

\* A request that authenticate turned away.
AcctUnauthorized(op, id, body) ==
    /\ last' = AcctCall(op, id, NULL, body, "unauthorized", NULL)
    /\ UNCHANGED <<issues, users, nextUserId, nextIssueId, now, listing, pc, req, resp>>

\* POST /api/issues by a token holder: authenticate, then
\* IssueController.createIssue.  An INSERT that breaks a foreign key throws.
AcctCreateIssue ==
    \E u \in UserIds, body \in AcctCreateBodies :
        LET auth == authenticate(BearerOf(u))
        IN  IF auth.error # NULL
            THEN AcctUnauthorized("createIssue", 0, body)
            ELSE LET issueData == createIssueData(body, auth.user[1])
                     accepted == foreignKeysHold(createIssueRow(issueData, now + 1), users)
                     stored == IF accepted
                               THEN createIssue(issues, nextIssueId, issueData, now + 1)
                               ELSE issues
                     answer == IF accepted
                               THEN Respond("created",
                                            getIssueById(stored, users, nextIssueId))
                               ELSE [outcome |-> "internalError", data |-> NULL]
                 IN  /\ nextIssueId <= MaxAcctIssues
                     /\ now < MaxClock
                     /\ issues' = stored
                     /\ nextIssueId' = nextIssueId + 1
                     /\ now' = now + 1
                     /\ last' = AcctCall("createIssue", nextIssueId, auth.user, body,
                                         answer.outcome, answer.data)
                     /\ UNCHANGED <<users, nextUserId, listing, pc, req, resp>>

\* PUT /api/issues/:id by a token holder: authenticate, then
\* IssueController.updateIssue.  An UPDATE that breaks a foreign key throws.
AcctUpdateIssue ==
    \E u \in UserIds, id \in 1..MaxAcctIssues, body \in AcctUpdateBodies :
        LET auth == authenticate(BearerOf(u))
        IN  IF auth.error # NULL
            THEN AcctUnauthorized("updateIssue", id, body)
            ELSE IF getIssueById(issues, users, id) = NULL
            THEN /\ last' = AcctCall("updateIssue", id, auth.user, body, "notFound", NULL)
                 /\ UNCHANGED <<issues, users, nextUserId, nextIssueId, now, listing,
                                pc, req, resp>>
            ELSE LET issueData == updateIssueData(body)
                     written == updateIssue(issues, id, issueData, now + 1)
                     accepted == foreignKeysHold(written[id], users)
                     stored == IF accepted THEN written ELSE issues
                     answer == IF accepted
                               THEN Respond("success", getIssueById(stored, users, id))
                               ELSE [outcome |-> "internalError", data |-> NULL]
                 IN  /\ now < MaxClock
                     /\ issues' = stored
                     /\ now' = now + 1
                     /\ last' = AcctCall("updateIssue", id, auth.user, body,
                                         answer.outcome, answer.data)
                     /\ UNCHANGED <<users, nextUserId, nextIssueId, listing, pc, req, resp>>

\* DELETE /api/issues/:id by a token holder: authenticate, then
\* IssueController.deleteIssue.
AcctDeleteIssue ==
    \E u \in UserIds, id \in 1..MaxAcctIssues :
        LET auth == authenticate(BearerOf(u))
        IN  IF auth.error # NULL
            THEN AcctUnauthorized("deleteIssue", id, EmptyBody)
            ELSE IF getIssueById(issues, users, id) = NULL
            THEN /\ last' = AcctCall("deleteIssue", id, auth.user, EmptyBody,
                                     "notFound", NULL)
                 /\ UNCHANGED <<issues, users, nextUserId, nextIssueId, now, listing,
                                pc, req, resp>>
            ELSE /\ now < MaxClock
                 /\ issues' = deleteIssue(issues, id)
                 /\ now' = now + 1
                 /\ last' = AcctCall("deleteIssue", id, auth.user, EmptyBody,
                                     "success", NULL)
                 /\ UNCHANGED <<users, nextUserId, nextIssueId, listing, pc, req, resp>>

NextAcct ==
    \/ \E c \in Clients : RegisterCheck(c)
    \/ \E c \in Clients : RegisterInsert(c)
    \/ AcctUpdateUser
    \/ AcctUpdatePassword
    \/ AcctDeleteUser
    \/ RemoveUserRow
    \/ AcctCreateIssue
    \/ AcctUpdateIssue
    \/ AcctDeleteIssue

SpecAcct == InitAcct /\ [][NextAcct]_vars


(***************************************************************************)
(* Properties of the accounts specification.                               *)
(***************************************************************************)

\* C14: the record a create request fetches by id and returns names as
\* createdBy the identity bound in the caller's verified token, its userId,
\* name and email, also when updateUser changed the caller's profile name
\* after the token was issued.
C14_CreatorMatchesToken ==
    (last.op = "createIssue" /\ last.outcome = "created") =>
        last.data[1].createdBy =
            [id |-> last.user[1].userId,
             name |-> Some(last.user[1].name),
             email |-> Some(last.user[1].email)]


\* C15: in every reachable state no two rows of users, enabled or disabled,
\* hold the same email; under every interleaving of the registrations' email
\* check and insert with each other and with soft deletes, a registration
\* whose email a row already holds when it is decided, a disabled row
\* included, adds no row.
C15_EmailUnique ==
    /\ \A u, v \in DOMAIN users : u # v => users[u].email # users[v].email
    /\ \A c \in Clients :
          (pc[c] = "done" /\ req[c].held) =>
              (~req[c].added /\ req[c].outcome # "created")

\* C15 witness: two registrations for the same fresh email both passed the
\* email check; the insert of one added the row and the insert of the other,
\* finding the email held, added none.
C15_Witness ==
    \E c, d \in Clients :
        /\ c # d
        /\ pc[c] = "done" /\ pc[d] = "done"
        /\ req[c].email = req[d].email
        /\ req[c].added
        /\ req[d].outcome = "internalError" /\ req[d].held /\ ~req[d].added


\* The rows of every issue read path: get by id, the unfiltered list and the
\* unfiltered export.
NoFilter ==
    [page |-> Some(1), limit |-> Some(MaxAcctIssues), status |-> undefined,
     priority |-> undefined, severity |-> undefined, search |-> undefined,
     sortBy |-> undefined, sortOrder |-> undefined, createdBy |-> undefined]

\* The names and emails an issue read returns for user u as creator or
\* assignee of the issue id; empty when the read leaves u out.
ShownOf(u, id) ==
    LET r == getIssueById(issues, users, id)[1]
        l == UNION {{row \in {getAllIssues(issues, users, NoFilter, ord).issues[k] :
                                k \in DOMAIN getAllIssues(issues, users, NoFilter, ord).issues} :
                       row.issue_id = id} : ord \in listOrders(issues, NoFilter)}
        e == UNION {{row \in {getIssuesForExport(issues, users, NoFilter, ord)[k] :
                                k \in DOMAIN getIssuesForExport(issues, users, NoFilter, ord)} :
                       row.issue_id = id} : ord \in exportOrders(issues)}
    IN  (IF issues[id].created_by = u
         THEN {r.creator_name, r.creator_email}
                 \cup {row.creator_name : row \in l} \cup {row.creator_email : row \in l}
                 \cup {row.created_by_name : row \in e}
         ELSE {})
        \cup
        (IF issues[id].assigned_to = Some(u)
         THEN {r.assignee_name, r.assignee_email}
                 \cup {row.assignee_name : row \in l} \cup {row.assignee_email : row \in l}
                 \cup {row.assigned_to_name : row \in e}
         ELSE {})

\* C16: after deleteUser(u) the row of u is still there with is_enabled
\* false, and every read path leaves the disabled user out: findByEmail,
\* findById and getAllUsers do not return u, updateUser and updatePassword
\* do not change u, and get by id, list and export return neither the name
\* nor the email of u as creator or assignee of an issue.
C16_DisabledUserExcluded ==
    /\ (last.op = "deleteUser" /\ last.id \in DOMAIN last.usersBefore) =>
          (last.id \in DOMAIN users /\ ~users[last.id].is_enabled)
    /\ \A u \in DOMAIN users :
          ~users[u].is_enabled =>
              /\ findByEmail(users, users[u].email) = NULL
              /\ findById(users, u) = NULL
              /\ \A record \in getAllUsers(users) : record.user_id # u
              /\ updateUser(users, u, [name |-> NameC]) = users
              /\ updatePassword(users, u, "hash4") = users
              /\ \A id \in DOMAIN issues : ShownOf(u, id) \subseteq {NULL}


\* C18: in every reachable state the created_by of each issue names a row of
\* users and its assigned_to is null or names a row of users; the removal of
\* a row of users that some issue names as creator is rejected and changes
\* neither table, and the removal of any other row deletes that row alone and
\* sets assigned_to to null on exactly the issues that were assigned to it.
C18_ReferencesIntact ==
    /\ \A id \in DOMAIN issues :
          /\ issues[id].created_by \in DOMAIN users
          /\ issues[id].assigned_to # NULL => issues[id].assigned_to[1] \in DOMAIN users
    /\ last.op = "removeUserRow" =>
          IF \E id \in DOMAIN last.before : last.before[id].created_by = last.id
          THEN /\ last.outcome = "rejected"
               /\ users = last.usersBefore
               /\ issues = last.before
          ELSE /\ last.outcome = "removed"
               /\ DOMAIN users = DOMAIN last.usersBefore \ {last.id}
               /\ \A u \in DOMAIN users : users[u] = last.usersBefore[u]
               /\ DOMAIN issues = DOMAIN last.before
               /\ \A id \in DOMAIN issues :
                     issues[id] =
                        IF last.before[id].assigned_to = Some(last.id)
                        THEN [last.before[id] EXCEPT !.assigned_to = NULL]
                        ELSE last.before[id]

\* C18 witness: the row of a user who was the assignee of a stored issue, and
\* the creator of none, was removed.
C18_Witness ==
    /\ last.op = "removeUserRow"
    /\ last.outcome = "removed"
    /\ \E id \in DOMAIN last.before : last.before[id].assigned_to = Some(last.id)
    /\ \E id \in DOMAIN issues : issues[id].assigned_to = NULL


\* The caller of the last request held a row of users that deleteUser had
\* disabled before the request.
CallerDisabled ==
    /\ last.user # NULL
    /\ last.user[1].userId \in DOMAIN last.usersBefore
    /\ ~last.usersBefore[last.user[1].userId].is_enabled

\* C20: what authenticate answers depends on the Authorization header and the
\* verification of its token alone, not on table users: whatever happened to
\* the row of u, the token issued to u passes with req.user its payload, and
\* a caller whose account deleteUser disabled still creates issues with
\* created_by = u, updates issues and deletes issues.
C20_AuthIgnoresUserStore ==
    /\ \A u \in UserIds :
          authenticate(BearerOf(u)) = [user |-> Some(TokenPayload(u)), error |-> NULL]
    /\ last.op \in {"createIssue", "updateIssue", "deleteIssue"} =>
          (last.outcome # "unauthorized" /\ last.user # NULL)
    /\ (last.op = "createIssue" /\ CallerDisabled /\ last.body.assignedTo = undefined) =>
          /\ last.outcome = "created"
          /\ last.id \in DOMAIN issues
          /\ issues[last.id].created_by = last.user[1].userId
    /\ (/\ last.op = "updateIssue" /\ CallerDisabled
        /\ last.id \in DOMAIN last.before /\ last.body.status # undefined) =>
          /\ last.outcome = "success"
          /\ issues[last.id].status = last.body.status[1]
    /\ (last.op = "deleteIssue" /\ CallerDisabled /\ last.id \in DOMAIN last.before) =>
          /\ last.outcome = "success"
          /\ last.id \notin DOMAIN issues

\* C20 witness: a user whose account was disabled created an issue with the
\* token issued before.
C20_Witness ==
    /\ last.op = "createIssue"
    /\ CallerDisabled
    /\ last.outcome = "created"
    /\ issues[last.id].created_by = last.user[1].userId

(***************************************************************************)
(* Specification of concurrent updates: one stored issue and two clients,  *)
(* each sending one PUT /:id for it through the chain of /api/issues, the  *)
(* queries of the two IssueController.updateIssue runs interleaving.       *)
(* last.before keeps the store the requests found.                         *)
(***************************************************************************)
\* The bodies of the PUT requests: none, one or two fields, the sets of two
\* bodies disjoint or overlapping, with and without status.
PutBodies ==
    {EmptyBody,
     [EmptyBody EXCEPT !.title = Some(TitleB)],
     [EmptyBody EXCEPT !.priority = Some("High")],
     [EmptyBody EXCEPT !.description = Some(Some(DescA)), !.assignedTo = Some(Some(2))],
     [EmptyBody EXCEPT !.title = Some(TitleA), !.severity = Some("Major")],
     [EmptyBody EXCEPT !.status = Some("Closed")]}

\* The bodies of the POST request that stored the issue.
PutCreateBodies ==
    {[EmptyBody EXCEPT !.title = Some(TitleA)],
     [EmptyBody EXCEPT !.title = Some(TitleB), !.description = Some(Some(<<"d">>)),
                       !.priority = Some("Critical"), !.severity = Some("Critical"),
                       !.assignedTo = Some(Some(1))]}

\* The id of the stored issue.
PutId == 1

InitPut ==
    /\ \E body \in PutCreateBodies :
          issues = createIssue(NoIssues, PutId,
                               createIssueData(body, TokenPayload(1)), 1)
    /\ users = InitUsers
    /\ nextUserId = Cardinality(DOMAIN InitUsers) + 1
    /\ nextIssueId = PutId + 1
    /\ now = 1
    /\ last = [NoCall EXCEPT !.before = issues]
    /\ listing = NULL
    /\ pc = [c \in Clients |-> "idle"]
    /\ req = [c \in Clients |-> NoRequest]
    /\ resp = [c \in Clients |-> NoResponse]

\* A PUT /:id for the stored issue arrives with the token of an account and
\* router.use(authenticate) runs on it.
PutAuthenticate(c) ==
    /\ pc[c] = "idle"
    /\ \E body \in PutBodies, u \in UserIds :
          LET headers == [authorization |-> Some(<<"Bearer", generateToken(u)>>)]
              auth == authenticate(headers)
          IN  /\ req' = [req EXCEPT ![c] =
                            [route |-> "PUT /:id", id |-> PutId, body |-> body,
                             headers |-> headers, user |-> auth.user,
                             ran |-> <<"authenticate">>]]
              /\ IF auth.error = NULL
                 THEN /\ pc' = [pc EXCEPT ![c] = "validate"]
                      /\ UNCHANGED resp
                 ELSE Finish(c, ErrorResponse(auth.error[1]))
    /\ UNCHANGED <<Store, Rest>>

NextPut ==
    \E c \in Clients :
        \/ PutAuthenticate(c)
        \/ Validate(c)
        \/ UpdateIssueCheck(c)
        \/ UpdateIssueWrite(c)
        \/ UpdateIssueFetch(c)

SpecPut == InitPut /\ [][NextPut]_vars

(***************************************************************************)
(* Properties of the specification of concurrent updates.                  *)
(***************************************************************************)
\* The fields a request supplies.
SuppliedFields(issueData) == {f \in DOMAIN issueData : issueData[f] # undefined}

\* The column of table issues a field of the request is written to.
ColumnOf(f) == IF f = "assignedTo" THEN "assigned_to" ELSE f

\* The row holds every value the request supplied.
Carries(row, issueData) ==
    \A f \in SuppliedFields(issueData) : row[ColumnOf(f)] = issueData[f][1]

\* The store after the update with first and then the update with second,
\* one after the other, from store iss at clock t0.
SequentialPuts(iss, t0, first, second) ==
    LET t1 == IF NothingToUpdate(first) THEN t0 ELSE t0 + 1
        t2 == IF NothingToUpdate(second) THEN t1 ELSE t1 + 1
    IN  updateIssue(updateIssue(iss, PutId, first, t1), PutId, second, t2)

\* The UPDATE of the client's request has run (or its SET list was empty).
PutWritten(c) ==
    /\ req[c].route = "PUT /:id"
    /\ \/ pc[c] = "updateIssue_fetch"
       \/ pc[c] = "done" /\ resp[c].outcome = "success"

\* Both requests have written, their fields are disjoint and neither
\* supplies status.
DisjointPutsWritten ==
    /\ \A c \in Clients : PutWritten(c)
    /\ SuppliedFields(updateIssueData(req["A"].body))
         \cap SuppliedFields(updateIssueData(req["B"].body)) = {}
    /\ \A c \in Clients : req[c].body.status = undefined

\* C21: two concurrent PUT /:id requests on the same stored issue with
\* disjoint sets of fields, neither supplying status, both take effect under
\* every interleaving of their queries: the stored row holds each request's
\* values and the store equals the one after the two updates run one after
\* the other, in either order.
C21_NoLostUpdate ==
    DisjointPutsWritten =>
        LET dataA == updateIssueData(req["A"].body)
            dataB == updateIssueData(req["B"].body)
            t0 == last.before[PutId].updated_at
        IN  /\ PutId \in DOMAIN issues
            /\ Carries(issues[PutId], dataA)
            /\ Carries(issues[PutId], dataB)
            /\ issues = SequentialPuts(last.before, t0, dataA, dataB)
            /\ issues = SequentialPuts(last.before, t0, dataB, dataA)

\* Both requests passed their existence check and wrote before either
\* fetched the record again, one setting the title and the other the
\* priority of a row that held other values.
C21_Witness ==
    /\ DisjointPutsWritten
    /\ \A c \in Clients : pc[c] = "updateIssue_fetch"
    /\ req["A"].body.title = Some(TitleB)
    /\ req["B"].body.priority = Some("High")
    /\ last.before[PutId].title # TitleB
    /\ last.before[PutId].priority # "High"
    /\ issues[PutId].title = TitleB
    /\ issues[PutId].priority = "High"

====
